---- MODULE Spec2Model ----
(***************************************************************************)
(* pyHYDRA classification.py: nested cross-validation of a linear SVM.     *)
(*                                                                         *)
(* The model follows one validation object (a KFoldCV or a RepeatedHoldOut *)
(* driving a LinearSVMAlgorithmWithPrecomputedKernel) through validate(),  *)
(* evaluate(), the inner grid search, apply_best_parameters(),             *)
(* save_results() and the variance estimators.                             *)
(*                                                                         *)
(* Numbers.  A float is a triple <<tag, n, d>>:                            *)
(*   <<"q", n, d>>    the rational n/d in lowest terms, d > 0              *)
(*   <<"p", n, d>>    the irrational 10^(n/d), n/d in lowest terms, d > 1  *)
(*   <<"log", n, d>>  the logarithm log10(n/d) of a rational that is no    *)
(*                    power of ten                                         *)
(*   <<"inf", s, 0>>  s * infinity,  <<"nan", 0, 0>>  not-a-number         *)
(* The SVM solver and the metric function of utils.py are collaborators    *)
(* outside classification.py: a training/scoring call returns one of the   *)
(* scores it is given to choose from, or raises.                           *)
(***************************************************************************)
EXTENDS Integers, Sequences, FiniteSets, TLC

\* ------------------------------------------------------------- bounds
NumSamples == 4
MaxFolds == 2
MaxResults == 3
MaxWorkers == 2

\* ------------------------------------------------- program parameters
\* grid_search_folds of the algorithm object (inner stratified folds)
GridSearchFolds == 2

Samples == 0 .. (NumSamples - 1)

\* the label vector y handed to the algorithm and to validate(): two classes
Y(s) == s % 2

Labels == {0, 1}

\* ------------------------------------------------------------- floats
Abs(x) == IF x < 0 THEN -x ELSE x

RECURSIVE Gcd(_, _)
Gcd(a, b) == IF b = 0 THEN a ELSE Gcd(b, a % b)

NaN == <<"nan", 0, 0>>

Inf(s) == <<"inf", s, 0>>

\* the rational n/d (d # 0) in lowest terms with a positive denominator
Rat(n, d) ==
    LET g == Gcd(Abs(n), Abs(d))
        s == IF d < 0 THEN -1 ELSE 1
    IN  <<"q", s * (n \div g), Abs(d) \div g>>

Int2F(k) == <<"q", k, 1>>

IsQ(a) == a[1] = "q"

IsNaN(a) == a[1] = "nan"

Sign(a) == IF a[2] > 0 THEN 1 ELSE IF a[2] < 0 THEN -1 ELSE 0

\* IEEE addition, subtraction, multiplication on the representable values
FAdd(a, b) ==
    IF IsQ(a) /\ IsQ(b) THEN Rat(a[2] * b[3] + b[2] * a[3], a[3] * b[3])
    ELSE IF a[1] = "inf" /\ IsQ(b) THEN a
    ELSE IF IsQ(a) /\ b[1] = "inf" THEN b
    ELSE IF a[1] = "inf" /\ b[1] = "inf" /\ a[2] = b[2] THEN a
    ELSE NaN

FNeg(a) == IF IsQ(a) \/ a[1] = "inf" THEN <<a[1], -a[2], a[3]>> ELSE NaN

FSub(a, b) == FAdd(a, FNeg(b))

FMul(a, b) ==
    IF IsQ(a) /\ IsQ(b) THEN Rat(a[2] * b[2], a[3] * b[3])
    ELSE IF a[1] \in {"q", "inf"} /\ b[1] \in {"q", "inf"} /\ Sign(a) # 0 /\ Sign(b) # 0
         THEN Inf(Sign(a) * Sign(b))
    ELSE NaN

\* numpy true division: x / 0 is nan for x = 0 and +-inf otherwise (a warning,
\* not an exception)
NpDiv(a, b) ==
    IF IsQ(a) /\ IsQ(b)
    THEN IF b[2] # 0 THEN Rat(a[2] * b[3], a[3] * b[2])
         ELSE IF a[2] = 0 THEN NaN ELSE Inf(Sign(a))
    ELSE IF a[1] = "inf" /\ IsQ(b) THEN Inf(Sign(a) * (IF b[2] < 0 THEN -1 ELSE 1))
    ELSE IF IsQ(a) /\ b[1] = "inf" THEN Int2F(0)
    ELSE NaN

\* a > b on floats: every comparison with nan is False
FGreater(a, b) ==
    IF IsQ(a) /\ IsQ(b) THEN a[2] * b[3] > b[2] * a[3]
    ELSE IF a[1] = "inf" /\ b[1] \in {"q", "inf"} THEN a[2] > 0 /\ ~(b[1] = "inf" /\ b[2] > 0)
    ELSE IF IsQ(a) /\ b[1] = "inf" THEN b[2] < 0
    ELSE FALSE

RECURSIVE IntPow10(_)
IntPow10(k) == IF k = 0 THEN 1 ELSE 10 * IntPow10(k - 1)

\* the number of decimal digits of a positive integer x, less one: the
\* exponent k when x = 10^k
RECURSIVE IntLog10(_)
IntLog10(x) == IF x < 10 THEN 0 ELSE 1 + IntLog10(x \div 10)

IsPow10(x) == x = IntPow10(IntLog10(x))

\* np.log10: nan (with a warning) below zero, -inf at zero; the logarithm of
\* 10^(n/d) is n/d, the logarithm of any other positive rational n/d is kept
\* as the symbol <<"log", n, d>>
NpLog10(a) ==
    IF a[1] = "p" THEN Rat(a[2], a[3])
    ELSE IF IsQ(a)
         THEN IF a[2] < 0 THEN NaN
              ELSE IF a[2] = 0 THEN Inf(-1)
              ELSE IF a[3] = 1 /\ IsPow10(a[2]) THEN Int2F(IntLog10(a[2]))
              ELSE IF a[2] = 1 /\ IsPow10(a[3]) THEN Int2F(-IntLog10(a[3]))
              ELSE <<"log", a[2], a[3]>>
    ELSE IF a[1] = "inf" /\ a[2] > 0 THEN a
    ELSE NaN

\* np.power(10, r): 10^(n/d) with d > 1 is kept as the symbol <<"p", n, d>>
NpPower10(r) ==
    IF IsQ(r)
    THEN IF r[3] = 1
         THEN IF r[2] >= 0 THEN Rat(IntPow10(r[2]), 1) ELSE Rat(1, IntPow10(-r[2]))
         ELSE <<"p", r[2], r[3]>>
    ELSE IF r[1] = "log" THEN Rat(r[2], r[3])
    ELSE IF r[1] = "inf" THEN (IF r[2] > 0 THEN r ELSE Int2F(0))
    ELSE NaN

RECURSIVE FSum(_)
FSum(xs) == IF Len(xs) = 0 THEN Int2F(0) ELSE FAdd(xs[1], FSum(Tail(xs)))

\* np.mean: the mean of an empty array is nan (with a warning)
NpMean(xs) == IF Len(xs) = 0 THEN NaN ELSE NpDiv(FSum(xs), Int2F(Len(xs)))

Map(F(_), xs) == [k \in 1 .. Len(xs) |-> F(xs[k])]

\* ------------------------------------------------------ the algorithm
\* c_range of the algorithm object, in candidate-list order
CRange == <<Int2F(1), Int2F(10)>>

\* the balanced accuracies a training/scoring call may report
AccValues == {Rat(1, 2), Int2F(1)}

\* the sentinel -1 that _select_best_parameter starts best_c and best_acc from
Sentinel == Int2F(-1)

\* a test that also lets a tie replace the current best
ImprovesOrTies(acc, best_acc) == ~FGreater(best_acc, acc)

\* the `if acc > best_acc` test of the inner loop
Improves(acc, best_acc) == FGreater(acc, best_acc)

\* the loop `for c, async_acc in async_result[fold].items()`: items is the
\* sequence of <<c, acc>> in dict insertion order; best is <<best_c, best_acc>>
RECURSIVE ScanFold(_, _)
ScanFold(items, best) ==
    IF Len(items) = 0 THEN best
    ELSE ScanFold(Tail(items),
                  IF Improves(items[1][2], best[2]) THEN items[1] ELSE best)

\* the per-fold winner <<best_c, best_acc>>
FoldWinner(items) == ScanFold(items, <<Sentinel, Sentinel>>)

\* the arithmetic mean of the Cs instead
PlainMean(cs) == NpMean(cs)

\* 10^(mean of log10): np.power(10, np.mean(np.log10(cs)))
LogMean(cs) == NpPower10(NpMean(Map(NpLog10, cs)))

\* LinearSVMAlgorithmWithPrecomputedKernel._select_best_parameter:
\* async_result is the sequence (fold 0, 1, ...) of item sequences
FoldWinners(table) == [f \in 1 .. Len(table) |-> FoldWinner(table[f])]

SelectBestParameter(table) ==
    LET c_values == [f \in 1 .. Len(table) |-> FoldWinners(table)[f][1]]
        accuracies == [f \in 1 .. Len(table) |-> FoldWinners(table)[f][2]]
    IN  [c |-> LogMean(c_values), balanced_accuracy |-> NpMean(accuracies)]

\* LinearSVMAlgorithmWithPrecomputedKernel.apply_best_parameters: the
\* aggregated parameters, and the SVC fitted on self._kernel, self._y
BestParametersOf(results_list) ==
    LET best_c_list == [k \in 1 .. Len(results_list) |-> results_list[k].best_parameter.c]
        bal_acc_list == [k \in 1 .. Len(results_list) |->
                            results_list[k].best_parameter.balanced_accuracy]
    IN  [c |-> LogMean(best_c_list), balanced_accuracy |-> NpMean(bal_acc_list)]

\* a fit that leaves a sample out
FitOnPart == Samples \ {0}

\* the samples the final SVC is fitted on: svc.fit(self._kernel, self._y)
FinalFitSamples == Samples

ApplyBestParameters(results_list) ==
    LET params == BestParametersOf(results_list)
    IN  <<[C |-> params.c, kernel |-> "precomputed", fit_on |-> FinalFitSamples], params>>

\* LinearSVMAlgorithmWithoutPrecomputedKernel.apply_best_parameters
ApplyBestParametersWithoutKernel(results_list) ==
    LET best_c_list == [k \in 1 .. Len(results_list) |-> results_list[k].best_parameter.c]
        bal_acc_list == [k \in 1 .. Len(results_list) |->
                            results_list[k].best_parameter.balanced_accuracy]
        best_c == NpPower10(NpMean(Map(NpLog10, best_c_list)))
        mean_bal_acc == NpMean(bal_acc_list)
    IN  <<[C |-> best_c, kernel |-> "linear", fit_on |-> Samples],
          [c |-> best_c, balanced_accuracy |-> mean_bal_acc]>>

\* ------------------------------------------------------------ indices
RECURSIVE SortedSeq(_)
SortedSeq(S) ==
    IF S = {} THEN <<>>
    ELSE LET m == CHOOSE x \in S : \A z \in S : x <= z
         IN  <<m>> \o SortedSeq(S \ {m})

Range(xs) == {xs[k] : k \in 1 .. Len(xs)}

\* numpy integer-array indexing of an axis of length len: an index in
\* -len..-1 counts from the end, anything outside -len..len-1 is an IndexError
InRange(ix, len) == \A k \in 1 .. Len(ix) : ix[k] >= -len /\ ix[k] < len

Wrap(j, len) == IF j < 0 THEN j + len ELSE j

\* the samples behind the rows of self._kernel[index, :] (and of self._y[index])
SampleRows(index) == [k \in 1 .. Len(index) |-> Wrap(index[k], NumSamples)]

\* the samples behind the rows of outer[ix, :], outer a slice with rows `rows`
SubRows(rows, ix) == [k \in 1 .. Len(ix) |-> rows[Wrap(ix[k], Len(rows)) + 1]]

Floor(n, d) == n \div d

Ceil(n, d) == (n + d - 1) \div d

\* ---------------------------------------------------------- splitters
\* sklearn's stratified splitters, by their contract: a shuffled assignment
\* with the class proportions kept in every fold.  ys is the label sequence
\* the splitter is given; the result indexes positions 0 .. Len(ys)-1.
ClassPositions(ys, c) == {p \in 0 .. (Len(ys) - 1) : ys[p + 1] = c}

Balanced(part, whole, k) ==
    Cardinality(part) >= Floor(Cardinality(whole), k) /\
    Cardinality(part) <= Ceil(Cardinality(whole), k)

\* StratifiedKFold(n_splits=k, shuffle=True).split(., ys) as a list of
\* <<train, test>> pairs of position arrays
StratifiedKFoldSplits(ys, k) ==
    LET pos == 0 .. (Len(ys) - 1)
        ok(f) == \A j \in 0 .. (k - 1) :
                    LET fold == {p \in pos : f[p] = j}
                    IN  /\ Balanced(fold, pos, k)
                        /\ \A c \in Labels :
                              Balanced(fold \cap ClassPositions(ys, c),
                                       ClassPositions(ys, c), k)
    IN  { [j \in 1 .. k |-> <<SortedSeq({p \in pos : f[p] # j - 1}),
                              SortedSeq({p \in pos : f[p] = j - 1})>>] :
          f \in {g \in [pos -> 0 .. (k - 1)] : ok(g)} }

\* KFold's argument check: at least two folds, at most one fold per sample
KFoldArgsOk(len, k) == k >= 2 /\ k <= len

\* test_size of the RepeatedHoldOut object, as <<numerator, denominator>>
TestSize == <<1, 2>>

NumTest == Ceil(NumSamples * TestSize[1], TestSize[2])

\* one StratifiedShuffleSplit draw: the test sets of NumTest samples with the
\* class proportions of y
HoldOutPairs ==
    LET ys == [k \in 1 .. NumSamples |-> Y(k - 1)]
        ok(T) == /\ Cardinality(T) = NumTest
                 /\ \A c \in Labels :
                       LET cls == ClassPositions(ys, c)
                       IN  /\ Cardinality(T \cap cls) >= Floor(Cardinality(cls) * NumTest, NumSamples)
                           /\ Cardinality(T \cap cls) <= Ceil(Cardinality(cls) * NumTest, NumSamples)
    IN  { <<SortedSeq(Samples \ T), SortedSeq(T)>> : T \in {U \in SUBSET Samples : ok(U)} }

\* StratifiedShuffleSplit(n_splits=n, test_size=TestSize).split(., y)
StratifiedShuffleSplits(n) == [1 .. n -> HoldOutPairs]

\* caller-supplied splits_indices: lists of <<train_index, test_index>> pairs.
\* validate() takes whatever it is handed.
PairLow == <<<<2, 3>>, <<0, 1>>>>

PairHigh == <<<<0, 1>>, <<2, 3>>>>

PairOverlap == <<<<0, 1, 2>>, <<2, 3>>>>

PairTestOutside == <<<<0, 1>>, <<2, NumSamples>>>>

PairTrainOutside == <<<<0, NumSamples>>, <<2, 3>>>>

SuppliedSplits ==
    { <<PairLow, PairHigh>>, <<PairOverlap, PairHigh>>, <<PairTestOutside, PairLow>>,
      <<PairTrainOutside, PairHigh>>, <<PairHigh>> }

\* ------------------------------------------------------------ metrics
Count(xs, P(_)) == Cardinality({k \in 1 .. Len(xs) : P(k)})

\* utils.evaluate_prediction(y, y_hat)['balanced_accuracy']: the mean of
\* sensitivity and specificity
BalancedAccuracy(y, y_hat) ==
    LET tp == Count(y, LAMBDA k : y[k] = 1 /\ y_hat[k] = 1)
        fn == Count(y, LAMBDA k : y[k] = 1 /\ y_hat[k] = 0)
        tn == Count(y, LAMBDA k : y[k] = 0 /\ y_hat[k] = 0)
        fp == Count(y, LAMBDA k : y[k] = 0 /\ y_hat[k] = 1)
    IN  NpDiv(FAdd(NpDiv(Int2F(tp), Int2F(tp + fn)), NpDiv(Int2F(tn), Int2F(tn + fp))),
              Int2F(2))

\* RepeatedHoldOut._compute_average_test_error
ComputeAverageTestError(y_list, yhat_list) ==
    Rat(Count(y_list, LAMBDA k : y_list[k] # yhat_list[k]), Len(y_list))

\* RepeatedHoldOut._compute_average_test_accuracy
ComputeAverageTestAccuracy(y_list, yhat_list) == BalancedAccuracy(y_list, yhat_list)

\* the divisor num_split - 1 of _compute_variance
VarianceDivisor(num_split) == num_split - 1

\* RepeatedHoldOut._compute_variance with num_split = len(self._split_results):
\* <<resampled_t, corrected_resampled_t>>.  `1/num_split` is a Python
\* division and raises for num_split = 0 (ComputeVarianceRaises); the other
\* divisions are numpy's and raise nothing.
ComputeVariance(test_error_split, num_split) ==
    LET average_test_error == NpMean(test_error_split)
        sq == [k \in 1 .. Len(test_error_split) |->
                  FMul(FSub(test_error_split[k], average_test_error),
                       FSub(test_error_split[k], average_test_error))]
        approx_variance == NpDiv(FSum(sq), Int2F(VarianceDivisor(num_split)))
        resampled_t == NpDiv(approx_variance, Int2F(num_split))
        corrected_resampled_t ==
            IF num_split = 0 THEN NaN
            ELSE FMul(FAdd(Rat(1, num_split), Rat(TestSize[1], TestSize[2] - TestSize[1])),
                      approx_variance)
    IN  <<resampled_t, corrected_resampled_t>>

ComputeVarianceRaises(num_split) == num_split = 0

\* -------------------------------------------------------------- state
None == <<>>

Some(x) == <<x>>

VARIABLES
    kind,            \* "KFoldCV" or "RepeatedHoldOut": the class of the object
    c_range,         \* _c_range of the algorithm object
    n_iterations,    \* RepeatedHoldOut._n_iterations
    n_threads,       \* the n_threads argument the validate() calls are given
    alg_n_threads,   \* _n_threads of the algorithm object
    fold_results,    \* _fold_results / _split_results: None or Some(list)
    classifier,      \* _classifier: None or Some(svc)
    best_params,     \* _best_params: None or Some(record)
    cv,              \* _cv: None or Some(list of <<train, test>>)
    variance,        \* the four variance fields: [error, accuracy], each None or Some(pair)
    pc,              \* where validate() stands: idle, loop, get, collect, aggregate
    n_folds,         \* the loop bound of the running validate(): n_folds / _n_iterations
    inner_cv_arg,    \* the inner_cv argument of RepeatedHoldOut.validate
    i,               \* the loop index of validate()
    async_result,    \* validate()'s local dict, as the list of results 0 .. i-1
    applied,         \* apply_best_parameters calls made by the running validate()
    async_pool,      \* validate()'s ThreadPool: none, open, closed, joined
    epc,             \* where evaluate() stands in the outer pool's worker
    train_index,     \* evaluate()'s arguments
    test_index,
    inner_pool,      \* evaluate()'s ThreadPool
    inner_cv,        \* evaluate()'s list of inner <<train, test>> position pairs
    grid,            \* evaluate()'s async_result: per inner fold the <<c, acc>> items
    fi,              \* inner fold index
    ci,              \* candidate index
    inflight,        \* the (fold, c) unit handed to the inner pool and not yet got
    winners,         \* _select_best_parameter's c_values / accuracies, zipped
    best_parameter,  \* evaluate()'s best_parameter: None or Some(record)
    unit_result,     \* what the outer unit left in its AsyncResult: None or Some(result)
    unit_error,      \* the exception the outer unit left in its AsyncResult, or ""
    outcome,         \* the last call on the object: its arguments and how it ended
    validated        \* validate() has been called on the object

ovars == <<kind, c_range, n_iterations, n_threads, alg_n_threads, fold_results, classifier, best_params, cv, variance>>

cvars == <<pc, n_folds, inner_cv_arg, i, async_result, applied>>

evars == <<epc, train_index, test_index, inner_cv, grid, fi, ci, inflight, winners,
           best_parameter, unit_result, unit_error>>

vars == <<ovars, cvars, evars, async_pool, inner_pool, outcome, validated>>

Results == fold_results[1]

IsNone(v) == v = None

YLabels == [k \in 1 .. NumSamples |-> Y(k - 1)]

\* KFoldCV.__init__ / RepeatedHoldOut.__init__
InitObject ==
    /\ kind \in {"KFoldCV", "RepeatedHoldOut"}
    /\ c_range \in {CRange, <<>>}
    /\ n_iterations \in 0 .. MaxFolds
    /\ kind = "KFoldCV" => n_iterations = 0
    /\ fold_results = Some(<<>>)
    /\ classifier = None
    /\ best_params = None
    /\ cv = None
    /\ variance = [error |-> None, accuracy |-> None]
    /\ pc = "idle"
    /\ n_folds = 0
    /\ inner_cv_arg = TRUE
    /\ i = 0
    /\ async_result = <<>>
    /\ applied = 0
    /\ async_pool = "none"
    /\ epc = "none"
    /\ train_index = <<>>
    /\ test_index = <<>>
    /\ inner_pool = "none"
    /\ inner_cv = <<>>
    /\ grid = <<>>
    /\ fi = 0
    /\ ci = 0
    /\ inflight = None
    /\ winners = <<>>
    /\ best_parameter = None
    /\ unit_result = None
    /\ unit_error = ""
    /\ outcome = [op |-> "init", status |-> "returned", error |-> "", n |-> 0, ret |-> None,
                  created |-> {}, splits |-> "none"]
    /\ validated = FALSE

\* one worker in the outer pool and one in the inner pool
Init ==
    /\ InitObject
    /\ n_threads = 1
    /\ alg_n_threads = 1

\* every worker count of the two pools
InitWorkers ==
    /\ InitObject
    /\ n_threads \in 1 .. MaxWorkers
    /\ alg_n_threads \in 1 .. MaxWorkers

\* the locals of evaluate() go with its frame
EvalFrameGone ==
    /\ epc' = "none"
    /\ train_index' = <<>>
    /\ test_index' = <<>>
    /\ inner_cv' = <<>>
    /\ grid' = <<>>
    /\ fi' = 0
    /\ ci' = 0
    /\ inflight' = None
    /\ winners' = <<>>
    /\ best_parameter' = None
    /\ unit_result' = None
    /\ unit_error' = ""

\* the locals of validate() go with its frame
CallFrameGone ==
    /\ pc' = "idle"
    /\ n_folds' = 0
    /\ inner_cv_arg' = TRUE
    /\ i' = 0
    /\ async_result' = <<>>

\* validate() leaves by an exception: nothing else is touched on the way out
ValidateRaises(error) ==
    /\ outcome' = [op |-> "validate", status |-> "raised", error |-> error,
                   n |-> n_folds, ret |-> None, created |-> {}, splits |-> "none"]
    /\ CallFrameGone
    /\ EvalFrameGone

\* ----------------------------------------------------------- validate
\* lines 285-292 / 377-383: the splits are stored, the pool is created
StartLoop(nf, flag, splits, how) ==
    /\ cv' = Some(splits)
    /\ async_pool' = "open"
    /\ async_result' = <<>>
    /\ applied' = 0
    /\ i' = 0
    /\ n_folds' = nf
    /\ inner_cv_arg' = flag
    /\ pc' = "loop"
    /\ validated' = TRUE
    /\ outcome' = [op |-> "validate", status |-> "running", error |-> "", n |-> nf,
                   ret |-> None, created |-> {}, splits |-> how]
    /\ UNCHANGED <<kind, c_range, n_iterations, n_threads, alg_n_threads, fold_results, classifier, best_params,
                   variance, evars, inner_pool>>

\* the arguments of a validate() call on this object; the exploration stops
\* calling once the object holds more than `held` results, and never makes
\* the list longer than `cap`
CallArgs(nf, flag, cap, held) ==
    /\ pc = "idle"
    /\ kind = "KFoldCV" => flag
    /\ kind = "RepeatedHoldOut" => nf = n_iterations
    /\ Len(Results) <= held
    /\ Len(Results) + nf <= cap

\* validate(y, ..., splits_indices=None)
ValidateGenerated(cap, held) ==
    \E nf \in 0 .. MaxFolds, flag \in BOOLEAN :
        /\ CallArgs(nf, flag, cap, held)
        /\ kind = "KFoldCV" => KFoldArgsOk(NumSamples, nf)
        /\ \E splits \in (IF kind = "KFoldCV" THEN StratifiedKFoldSplits(YLabels, nf)
                          ELSE StratifiedShuffleSplits(nf)) :
              StartLoop(nf, flag, splits, "generated")

\* KFoldCV.validate, line 286: StratifiedKFold refuses n_splits < 2
ValidateSplitterRaises(cap, held) ==
    \E nf \in 0 .. MaxFolds :
        /\ CallArgs(nf, TRUE, cap, held)
        /\ kind = "KFoldCV"
        /\ ~KFoldArgsOk(NumSamples, nf)
        /\ validated' = TRUE
        /\ outcome' = [op |-> "validate", status |-> "raised", error |-> "ValueError",
                       n |-> nf, ret |-> None, created |-> {}, splits |-> "none"]
        /\ UNCHANGED <<ovars, cvars, evars, async_pool, inner_pool>>

\* validate(y, ..., splits_indices=<a list>)
ValidateSupplied(cap, held) ==
    \E nf \in 0 .. MaxFolds, flag \in BOOLEAN, splits \in SuppliedSplits :
        /\ CallArgs(nf, flag, cap, held)
        /\ StartLoop(nf, flag, splits, "supplied")

Nested == kind = "KFoldCV" \/ inner_cv_arg

\* line 296 / 387: train_index, test_index = self._cv[i]
SplitAt(k) == cv[1][k + 1]

\* lines 294-297 / 385-389: the unit is handed to the pool
OuterSubmit ==
    /\ pc = "loop"
    /\ i < n_folds
    /\ i < Len(cv[1])
    /\ Nested
    /\ train_index' = SplitAt(i)[1]
    /\ test_index' = SplitAt(i)[2]
    /\ epc' = "start"
    /\ pc' = "get"
    /\ UNCHANGED <<ovars, n_folds, inner_cv_arg, i, async_result, applied, inner_cv, grid, fi,
                   ci, inflight, winners, best_parameter, unit_result, unit_error,
                   async_pool, inner_pool, outcome, validated>>

\* line 296 / 387: self._cv[i] past the end of the supplied list
OuterIndexError ==
    /\ pc = "loop"
    /\ i < n_folds
    /\ i >= Len(cv[1])
    /\ ValidateRaises("IndexError")
    /\ UNCHANGED <<ovars, applied, async_pool, inner_pool, validated>>

\* lines 391-392: raise Exception("We always do nested CV")
NonNestedRaises ==
    /\ pc = "loop"
    /\ i < n_folds
    /\ i < Len(cv[1])
    /\ ~Nested
    /\ ValidateRaises("We always do nested CV")
    /\ UNCHANGED <<ovars, applied, async_pool, inner_pool, validated>>

\* a driver that records every result as soon as it is got
OuterGetRecording ==
    /\ pc = "get"
    /\ epc = "done"
    /\ async_result' = Append(async_result, unit_result[1])
    /\ fold_results' = Some(Append(Results, unit_result[1]))
    /\ i' = i + 1
    /\ pc' = "loop"
    /\ EvalFrameGone
    /\ UNCHANGED <<kind, c_range, n_iterations, n_threads, alg_n_threads, classifier, best_params, cv, variance,
                   n_folds, inner_cv_arg, applied, async_pool, inner_pool, outcome,
                   validated>>

\* line 298 / 390: results.get() hands back the unit's result
OuterGet ==
    /\ pc = "get"
    /\ epc = "done"
    /\ async_result' = Append(async_result, unit_result[1])
    /\ i' = i + 1
    /\ pc' = "loop"
    /\ EvalFrameGone
    /\ UNCHANGED <<ovars, n_folds, inner_cv_arg, applied, async_pool, inner_pool, outcome,
                   validated>>

\* line 298 / 390: results.get() re-raises the unit's exception
OuterGetRaises ==
    /\ pc = "get"
    /\ epc = "failed"
    /\ ValidateRaises(unit_error)
    /\ UNCHANGED <<ovars, applied, async_pool, inner_pool, validated>>

\* lines 299-300 / 394-395: async_pool.close(); async_pool.join()
ClosePool ==
    /\ pc = "loop"
    /\ i = n_folds
    /\ async_pool' = "joined"
    /\ pc' = "collect"
    /\ UNCHANGED <<ovars, n_folds, inner_cv_arg, i, async_result, applied, evars, inner_pool,
                   outcome, validated>>

\* lines 302-303 / 397-398: the results of the call are appended in index order
Collect ==
    /\ pc = "collect"
    /\ fold_results' = Some(Results \o [k \in 1 .. n_folds |-> async_result[k]])
    /\ pc' = "aggregate"
    /\ UNCHANGED <<kind, c_range, n_iterations, n_threads, alg_n_threads, classifier, best_params, cv, variance,
                   n_folds, inner_cv_arg, i, async_result, applied, evars, async_pool,
                   inner_pool, outcome, validated>>

\* lines 306-308 / 400-401: the final model and parameters, and the return
Aggregate ==
    /\ pc = "aggregate"
    /\ LET r == ApplyBestParameters(Results)
       IN  /\ classifier' = Some(r[1])
           /\ best_params' = Some(r[2])
           /\ outcome' = [op |-> "validate", status |-> "returned", error |-> "",
                          n |-> n_folds, ret |-> Some(<<r[1], r[2], Results>>),
                          created |-> {}, splits |-> outcome.splits]
    /\ applied' = applied + 1
    /\ pc' = "idle"
    /\ n_folds' = 0
    /\ inner_cv_arg' = TRUE
    /\ i' = 0
    /\ async_result' = <<>>
    /\ UNCHANGED <<kind, c_range, n_iterations, n_threads, alg_n_threads, fold_results, cv, variance, evars,
                   async_pool, inner_pool, validated>>

\* line 246: svc.fit on the whole data raises
AggregateRaises ==
    /\ pc = "aggregate"
    /\ applied' = applied + 1
    /\ ValidateRaises("TrainingError")
    /\ UNCHANGED <<ovars, async_pool, inner_pool, validated>>

\* ----------------------------------------------------------- evaluate
\* the unit ends with an exception: it is kept in the AsyncResult; nothing is
\* cleaned up on the way out
EvalFails(error) ==
    /\ epc' = "failed"
    /\ unit_error' = error
    /\ UNCHANGED <<train_index, test_index, inner_cv, grid, fi, ci, inflight, winners,
                   best_parameter, unit_result>>

\* the samples behind the rows of outer_kernel and of y_train
OuterRows == SampleRows(train_index)

\* the labels y_train = self._y[train_index]
YTrain == [k \in 1 .. Len(train_index) |-> Y(OuterRows[k])]

\* the workers a pool has that run no unit: ThreadPool(n_threads) of validate()
\* (line 291 / 382) runs evaluate() in one worker from its start to its return;
\* ThreadPool(self._n_threads) of evaluate() (line 181) is new in every call
\* and runs one (fold, c) unit at a time
FreeWorkers(pool) ==
    IF pool = "outer"
    THEN n_threads - (IF epc \in {"inner", "select", "refit"} THEN 1 ELSE 0)
    ELSE alg_n_threads

\* lines 186-190 go through: the indices are in range, the splitter accepts
EvalArgsOk ==
    /\ InRange(train_index, NumSamples)
    /\ KFoldArgsOk(Len(train_index), GridSearchFolds)

\* lines 181-190: the inner pool, the empty dicts, the outer slice, the inner folds
EvalStart ==
    /\ pc = "get"
    /\ epc = "start"
    /\ FreeWorkers("outer") > 0
    /\ EvalArgsOk
    /\ inner_pool' = "open"
    /\ \E splits \in StratifiedKFoldSplits(YTrain, GridSearchFolds) : inner_cv' = splits
    /\ grid' = [f \in 1 .. GridSearchFolds |-> <<>>]
    /\ fi' = IF Len(c_range) = 0 THEN GridSearchFolds ELSE 0
    /\ ci' = 0
    /\ epc' = "inner"
    /\ UNCHANGED <<ovars, cvars, train_index, test_index, inflight, winners, best_parameter,
                   unit_result, unit_error, async_pool, outcome, validated>>

\* line 186 (IndexError) or line 190 (ValueError) raises, the pool of line 181
\* being open
EvalStartRaises ==
    /\ pc = "get"
    /\ epc = "start"
    /\ FreeWorkers("outer") > 0
    /\ ~EvalArgsOk
    /\ inner_pool' = "open"
    /\ EvalFails(IF InRange(train_index, NumSamples) THEN "ValueError" ELSE "IndexError")
    /\ UNCHANGED <<ovars, cvars, async_pool, outcome, validated>>

\* the samples whose kernel rows and labels the unit (fold f, any c) is given:
\* inner_kernel and y_train_inner, x_test_inner and y_test_inner (lines 195-197)
InnerTrainSamples(f) == Range(SubRows(OuterRows, inner_cv[f + 1][1]))

InnerTestSamples(f) == Range(SubRows(OuterRows, inner_cv[f + 1][2]))

\* one pool for both levels
SharedPool == "outer"

\* lines 199-201: the pool the (fold, c) units are handed to is inner_pool
InnerUnitPool == "inner"

\* lines 199-202: inner_pool.apply_async(self._grid_search, ...)
InnerSubmit ==
    /\ epc = "inner"
    /\ fi < Len(inner_cv)
    /\ inflight = None
    /\ inflight' = Some(<<fi, ci>>)
    /\ UNCHANGED <<ovars, cvars, epc, train_index, test_index, inner_cv, grid, fi, ci,
                   winners, best_parameter, unit_result, unit_error, async_pool,
                   inner_pool, outcome, validated>>

\* async_result[i][c] = value on a dict kept as its item sequence
RECURSIVE DictPut(_, _, _)
DictPut(items, key, value) ==
    IF Len(items) = 0 THEN <<<<key, value>>>>
    ELSE IF items[1][1] = key THEN <<<<key, value>>>> \o Tail(items)
    ELSE <<items[1]>> \o DictPut(Tail(items), key, value)

\* line 203: results.get() returns the balanced accuracy of _grid_search
InnerGet(scores) ==
    /\ epc = "inner"
    /\ inflight # None
    /\ FreeWorkers(InnerUnitPool) > 0
    /\ \E acc \in scores :
          grid' = [grid EXCEPT ![fi + 1] = DictPut(@, c_range[ci + 1], acc)]
    /\ inflight' = None
    /\ fi' = IF ci + 1 = Len(c_range) THEN fi + 1 ELSE fi
    /\ ci' = IF ci + 1 = Len(c_range) THEN 0 ELSE ci + 1
    /\ UNCHANGED <<ovars, cvars, epc, train_index, test_index, inner_cv, winners,
                   best_parameter, unit_result, unit_error, async_pool, inner_pool,
                   outcome, validated>>

\* line 203: results.get() re-raises what _launch_svc raised in the worker
InnerGetRaises ==
    /\ epc = "inner"
    /\ inflight # None
    /\ FreeWorkers(InnerUnitPool) > 0
    /\ EvalFails("TrainingError")
    /\ UNCHANGED <<ovars, cvars, async_pool, inner_pool, outcome, validated>>

\* lines 204-205: inner_pool.close(); inner_pool.join()
InnerClose ==
    /\ epc = "inner"
    /\ fi = Len(inner_cv)
    /\ inflight = None
    /\ inner_pool' = "joined"
    /\ epc' = "select"
    /\ UNCHANGED <<ovars, cvars, train_index, test_index, inner_cv, grid, fi, ci, inflight,
                   winners, best_parameter, unit_result, unit_error, async_pool, outcome,
                   validated>>

\* line 207: best_parameter = self._select_best_parameter(async_result)
Select ==
    /\ epc = "select"
    /\ winners' = FoldWinners(grid)
    /\ best_parameter' = Some(SelectBestParameter(grid))
    /\ epc' = "refit"
    /\ UNCHANGED <<ovars, cvars, train_index, test_index, inner_cv, grid, fi, ci, inflight,
                   unit_result, unit_error, async_pool, inner_pool, outcome, validated>>

\* the predictions the refitted SVC may make on the test rows: wrong on the
\* first m of them
Predictions(y, max_wrong) ==
    { [k \in 1 .. Len(y) |-> IF k <= m THEN 1 - y[k] ELSE y[k]] :
      m \in 0 .. (IF max_wrong < Len(y) THEN max_wrong ELSE Len(y)) }

\* lines 208-225: the refit on the outer training slice and the result record
Refit(max_wrong) ==
    /\ epc = "refit"
    /\ InRange(test_index, NumSamples)
    /\ LET y_test == [k \in 1 .. Len(test_index) |-> Y(SampleRows(test_index)[k])]
       IN  \E y_hat \in Predictions(y_test, max_wrong) :
              unit_result' = Some([best_parameter |-> best_parameter[1],
                                   evaluation |-> BalancedAccuracy(y_test, y_hat),
                                   y_hat |-> y_hat,
                                   y |-> y_test,
                                   y_index |-> test_index,
                                   x_index |-> train_index])
    /\ epc' = "done"
    /\ UNCHANGED <<ovars, cvars, train_index, test_index, inner_cv, grid, fi, ci, inflight,
                   winners, best_parameter, unit_error, async_pool, inner_pool, outcome,
                   validated>>

\* line 208 (IndexError on the test rows) or line 211 (_launch_svc) raises
RefitRaises ==
    /\ epc = "refit"
    /\ EvalFails(IF InRange(test_index, NumSamples) THEN "TrainingError" ELSE "IndexError")
    /\ UNCHANGED <<ovars, cvars, async_pool, inner_pool, outcome, validated>>

\* ------------------------------------------- persistence and variance
Path(name, k) == <<name, k>>

\* RepeatedHoldOut.compute_error_variance: the pair it stores and returns
ComputeErrorVariance(results) ==
    ComputeVariance([k \in 1 .. Len(results) |->
                        ComputeAverageTestError(results[k].y, results[k].y_hat)],
                    Len(results))

\* RepeatedHoldOut.compute_accuracy_variance
ComputeAccuracyVariance(results) ==
    ComputeVariance([k \in 1 .. Len(results) |->
                        ComputeAverageTestAccuracy(results[k].y, results[k].y_hat)],
                    Len(results))

\* how save_results() ended, and the directories and files it created
Ended(status, error, created) ==
    [op |-> "save_results", status |-> status, error |-> error, n |-> 0, ret |-> None,
     created |-> created, splits |-> "none"]

\* the guard at the top of save_results (line 311 / 404)
NoResultsGuard == IsNone(fold_results)

UsageError == "No results to save. Method validate() must be run before save_results()."

\* KFoldCV.save_results: the folds directory, two files per fold, the three
\* tables; pd.concat of an empty list raises ValueError
KFoldFiles(results) ==
    {Path("folds/subjects_fold.tsv", k - 1) : k \in 1 .. Len(results)} \cup
    {Path("folds/results_fold.tsv", k - 1) : k \in 1 .. Len(results)}

KFoldTables == {Path("subjects.tsv", -1), Path("results.tsv", -1), Path("mean_results.tsv", -1)}

SaveResultsKFold ==
    /\ pc = "idle"
    /\ kind = "KFoldCV"
    /\ outcome' =
          IF NoResultsGuard THEN Ended("raised", UsageError, {})
          ELSE IF Len(Results) = 0 THEN Ended("raised", "ValueError", {Path("folds", -1)})
          ELSE Ended("returned", "",
                     {Path("folds", -1)} \cup KFoldFiles(Results) \cup KFoldTables)
    /\ UNCHANGED <<ovars, cvars, evars, async_pool, inner_pool, validated>>

\* RepeatedHoldOut.save_results: one directory and three files per iteration,
\* the four tables, the two variance computations, the variance table
HoldOutFiles(results) ==
    UNION { {Path("iteration", k - 1), Path("iteration/train_subjects.tsv", k - 1),
             Path("iteration/test_subjects.tsv", k - 1), Path("iteration/results.tsv", k - 1)} :
            k \in 1 .. Len(results) }

HoldOutTables ==
    {Path("train_subjects.tsv", -1), Path("test_subjects.tsv", -1), Path("results.tsv", -1),
     Path("mean_results.tsv", -1)}

SaveResultsHoldOut ==
    /\ pc = "idle"
    /\ kind = "RepeatedHoldOut"
    /\ IF NoResultsGuard
       THEN /\ outcome' = Ended("raised", UsageError, {})
            /\ UNCHANGED variance
       ELSE IF Len(Results) = 0
       THEN /\ outcome' = Ended("raised", "ValueError", {})
            /\ UNCHANGED variance
       ELSE IF ComputeVarianceRaises(Len(Results))
       THEN /\ outcome' = Ended("raised", "ZeroDivisionError",
                                HoldOutFiles(Results) \cup HoldOutTables)
            /\ UNCHANGED variance
       ELSE /\ variance' = [error |-> Some(ComputeErrorVariance(Results)),
                            accuracy |-> Some(ComputeAccuracyVariance(Results))]
            /\ outcome' = Ended("returned", "",
                                HoldOutFiles(Results) \cup HoldOutTables
                                    \cup {Path("variance.tsv", -1)})
    /\ UNCHANGED <<kind, c_range, n_iterations, n_threads, alg_n_threads, fold_results, classifier, best_params, cv,
                   cvars, evars, async_pool, inner_pool, validated>>

\* ------------------------------------------------------ specification
\* scores: what a grid-search unit may report; max_wrong: how many test
\* predictions may be wrong; cap, held: the bounds of CallArgs
Step(scores, max_wrong, cap, held) ==
    \/ ValidateGenerated(cap, held)
    \/ ValidateSplitterRaises(cap, held)
    \/ ValidateSupplied(cap, held)
    \/ OuterSubmit
    \/ OuterIndexError
    \/ NonNestedRaises
    \/ OuterGet
    \/ OuterGetRaises
    \/ ClosePool
    \/ Collect
    \/ Aggregate
    \/ AggregateRaises
    \/ EvalStart
    \/ EvalStartRaises
    \/ InnerSubmit
    \/ InnerGet(scores)
    \/ InnerGetRaises
    \/ InnerClose
    \/ Select
    \/ Refit(max_wrong)
    \/ RefitRaises
    \/ SaveResultsKFold
    \/ SaveResultsHoldOut

\* repeated calls on one object, with a scorer that reports one value
Next == Step({Int2F(1)}, 0, MaxResults, MaxResults)

Spec == Init /\ [][Next]_vars

\* every score and every prediction, on an object that holds no results yet
NextData == Step(AccValues, NumSamples, MaxFolds, 0)

SpecData == Init /\ [][NextData]_vars

\* two runs on one object; once the object holds results, a prediction may
\* miss one test sample
NextRuns ==
    \/ Len(Results) = 0 /\ Step({Int2F(1)}, 0, 2 * MaxFolds, MaxFolds)
    \/ Len(Results) > 0 /\ Step({Int2F(1)}, 1, 2 * MaxFolds, MaxFolds)

SpecRuns == Init /\ [][NextRuns]_vars

\* the steps of a running validate() call but Select, training and scoring
\* calls included
Run ==
    \/ OuterSubmit
    \/ OuterIndexError
    \/ NonNestedRaises
    \/ OuterGet
    \/ OuterGetRaises
    \/ ClosePool
    \/ Collect
    \/ AggregateRaises
    \/ Aggregate
    \/ EvalStartRaises
    \/ EvalStart
    \/ InnerSubmit
    \/ InnerGetRaises
    \/ InnerGet({Int2F(1)})
    \/ InnerClose
    \/ RefitRaises
    \/ Refit(0)

\* weak fairness of Select: Select is enabled exactly when epc = "select", and
\* the steps that leave epc = "select" are the steps of Select
SelectReturns == []<>(epc # "select")

\* one run per object, for every worker count
NextWorkers == Step({Int2F(1)}, 0, MaxFolds, 0)

\* a call that has started keeps taking steps: every pool hands a queued unit
\* to a free worker, and every training, scoring and selection call ends
SpecWorkers == InitWorkers /\ [][NextWorkers]_vars /\ WF_vars(Run) /\ SelectReturns

\* ------------------------------------------------------------- claims
Returned == outcome.op = "validate" /\ outcome.status = "returned"

\* the results the last validate() call returned
ReturnedResults == outcome.ret[1][3]

TestSamples(index) == Range(SampleRows(index))

\* C1: while evaluate(train_index, test_index) runs its inner search, every
\* inner fold indexes positions of the outer-training slice, the inner test
\* sets are pairwise disjoint and cover the outer-training samples, and no
\* sample of test_index is among the samples of a (fold, C) unit.
C1_NestedSeparation ==
    epc = "inner" =>
        /\ \A f \in 1 .. Len(inner_cv) :
              Range(inner_cv[f][1]) \cup Range(inner_cv[f][2]) \subseteq
                  0 .. (Len(train_index) - 1)
        /\ \A f, g \in 1 .. Len(inner_cv) :
              f # g => Range(inner_cv[f][2]) \cap Range(inner_cv[g][2]) = {}
        /\ UNION {InnerTestSamples(f - 1) : f \in 1 .. Len(inner_cv)} = Range(OuterRows)
        /\ inflight # None =>
              (InnerTrainSamples(fi) \cup InnerTestSamples(fi)) \cap TestSamples(test_index) = {}

\* Three outer folds that selected C = 10, 100 and 1000
ExampleResults ==
    [k \in 1 .. 3 |->
        [best_parameter |-> [c |-> Int2F(IntPow10(k)), balanced_accuracy |-> Rat(k, 4)]]]

\* C2: apply_best_parameters on a non-empty result list with positive Cs
\* returns the geometric mean of the selected Cs (n * log10(final C) is the sum
\* of their log10; [10, 100, 1000] gives 100) and the arithmetic mean of the
\* folds' balanced accuracies; the kernel and the non-kernel variant agree.
C2_Aggregation ==
    /\ BestParametersOf(ExampleResults).c = Int2F(100)
    /\ ApplyBestParametersWithoutKernel(ExampleResults)[2].c = Int2F(100)
    /\ (Returned /\ Len(Results) > 0 /\ Len(c_range) > 0) =>
          LET n == Len(Results)
              params == best_params[1]
              logs == [k \in 1 .. n |-> NpLog10(Results[k].best_parameter.c)]
              accs == [k \in 1 .. n |-> Results[k].best_parameter.balanced_accuracy]
          IN  /\ \A k \in 1 .. n : IsQ(logs[k]) /\ IsQ(accs[k])
              /\ FMul(Int2F(n), NpLog10(params.c)) = FSum(logs)
              /\ FMul(Int2F(n), params.balanced_accuracy) = FSum(accs)
              /\ outcome.ret[1][2] = params
              /\ ApplyBestParametersWithoutKernel(Results)[2] = params

\* validate() has returned an aggregate over folds that selected different Cs
\* and had different accuracies
C2_Witness ==
    /\ Returned
    /\ Len(c_range) > 0
    /\ \E j, k \in 1 .. Len(Results) :
          /\ Results[j].best_parameter.c # Results[k].best_parameter.c
          /\ Results[j].best_parameter.balanced_accuracy #
                Results[k].best_parameter.balanced_accuracy
    /\ best_params[1].c[1] = "p"

\* C3: once _select_best_parameter has run, the winner of every inner fold is
\* the first candidate, in c_range order, whose balanced accuracy no other
\* candidate exceeds: it strictly exceeds every earlier candidate.
C3_TieBreak ==
    epc \in {"refit", "done"} =>
        \A f \in 1 .. Len(grid) :
            Len(grid[f]) > 0 =>
                \E k \in 1 .. Len(grid[f]) :
                    /\ winners[f] = grid[f][k]
                    /\ grid[f][k][1] = c_range[k]
                    /\ \A j \in 1 .. Len(grid[f]) : ~FGreater(grid[f][j][2], grid[f][k][2])
                    /\ \A j \in 1 .. (k - 1) : FGreater(grid[f][k][2], grid[f][j][2])

\* the selection has run on a fold where two candidates tie at the maximum,
\* and on a fold where the later candidate is strictly better
C3_Witness ==
    /\ epc = "refit"
    /\ \E f \in 1 .. Len(grid) :
          /\ Len(grid[f]) = 2
          /\ grid[f][1][2] = grid[f][2][2]
          /\ winners[f] = grid[f][1]
    /\ \E f \in 1 .. Len(grid) :
          /\ Len(grid[f]) = 2
          /\ FGreater(grid[f][2][2], grid[f][1][2])
          /\ winners[f] = grid[f][2]

\* C4: every validate() call returns as many results as it evaluated folds,
\* and its final parameters aggregate the results of that call alone.
C4_StateFree ==
    Returned =>
        /\ Len(ReturnedResults) = outcome.n
        /\ outcome.ret[1][2] =
              BestParametersOf(SubSeq(Results, Len(Results) - outcome.n + 1, Len(Results)))

\* C5: save_results() on an object validate() was never called on raises the
\* usage error of its guard, and creates nothing.
C5_SaveBeforeValidate ==
    (outcome.op = "save_results" /\ ~validated) =>
        /\ outcome.status = "raised"
        /\ outcome.error = UsageError
        /\ outcome.created = {}

\* C6: with one iteration in the results, the variance estimators raise, and so
\* does save_results(): no variance is stored or written.
C6_SingleIterationVariance ==
    (kind = "RepeatedHoldOut" /\ outcome.op = "save_results" /\ Len(Results) = 1) =>
        /\ outcome.status = "raised"
        /\ Path("variance.tsv", -1) \notin outcome.created

\* C7: a validate(..., inner_cv=False) call on a RepeatedHoldOut never gets
\* past its non-nested check: it evaluates nothing, closes no loop, collects
\* and aggregates nothing.
C7_NonNestedFatal ==
    (kind = "RepeatedHoldOut" /\ ~inner_cv_arg) => (pc = "loop" /\ epc = "none")

\* C8: after KFoldCV.validate returns, with generated or with supplied
\* splits, the test index sets of the returned results are pairwise disjoint
\* and their union is the sample set.
C8_KFoldCoverage ==
    (kind = "KFoldCV" /\ Returned) =>
        /\ \A j, k \in 1 .. Len(ReturnedResults) :
              j # k => TestSamples(ReturnedResults[j].y_index) \cap
                          TestSamples(ReturnedResults[k].y_index) = {}
        /\ UNION {TestSamples(ReturnedResults[k].y_index) : k \in 1 .. Len(ReturnedResults)}
              = Samples

\* C9: apply_best_parameters is not called while folds are dispatched or
\* collected; a validate() that returned has called it once, on the collected
\* list, and returns and stores its model: an SVC fitted on all N samples with
\* the aggregated C.
C9_FinalRefit ==
    /\ pc \in {"loop", "get", "collect", "aggregate"} => applied = 0
    /\ pc = "aggregate" =>
          /\ Len(async_result) = n_folds
          /\ SubSeq(Results, Len(Results) - n_folds + 1, Len(Results)) = async_result
    /\ Returned =>
          /\ applied = 1
          /\ classifier = Some(outcome.ret[1][1])
          /\ best_params = Some(outcome.ret[1][2])
          /\ outcome.ret[1][1].fit_on = Samples
          /\ outcome.ret[1][1].C = outcome.ret[1][2].c
          /\ outcome.ret[1][2] = BestParametersOf(Results)

\* a validate() over two folds has returned its final model
C9_Witness ==
    /\ Returned
    /\ outcome.n = MaxFolds
    /\ classifier # None
    /\ Len(c_range) > 0

\* C10: the list validate() returns holds at position k the result of split k
\* of self._cv.
C10_Ordering ==
    Returned =>
        \A k \in 1 .. Len(ReturnedResults) :
            /\ k <= Len(cv[1])
            /\ ReturnedResults[k].x_index = cv[1][k][1]
            /\ ReturnedResults[k].y_index = cv[1][k][2]

\* C11: from the start of a validate() call to the end of its dispatch loop
\* nothing is recorded and no final model is fitted, so a call that an outer
\* unit's failure ends leaves _fold_results / _split_results, the classifier
\* and the best parameters as they were before the call; the failure of an
\* inner (fold, C) unit fails its outer unit, and validate() raises the error
\* the failed outer unit left.
C11_ErrorPropagation ==
    [][ /\ (pc \in {"idle", "loop", "get"} /\ pc' \in {"idle", "loop", "get", "collect"}) =>
              /\ UNCHANGED <<fold_results, classifier, best_params>>
              /\ pc' # "idle" => applied' = 0
        /\ (epc = "inner" /\ inflight # None /\ epc' # "inner") =>
              (epc' = "failed" /\ unit_error' # "")
        /\ (pc = "get" /\ epc = "failed") =>
              /\ outcome' = [op |-> "validate", status |-> "raised", error |-> unit_error,
                             n |-> n_folds, ret |-> None, created |-> {}, splits |-> "none"]
              /\ pc' = "idle"
      ]_vars

\* a validate() call on an object that holds a model and results of an earlier
\* call has been ended by the failure of a unit, before any final fit
C11_Witness ==
    /\ outcome.op = "validate"
    /\ outcome.status = "raised"
    /\ outcome.error = "TrainingError"
    /\ applied = 0
    /\ Len(Results) > 0
    /\ classifier # None

\* the variance pair of the claim: x the per-iteration statistics, J their
\* number, the held-out fraction TestSize
ClaimedVariance(x, J) ==
    LET mean == NpDiv(FSum(x), Int2F(J))
        s2 == NpDiv(FSum([k \in 1 .. J |-> FMul(FSub(x[k], mean), FSub(x[k], mean))]),
                    Int2F(J - 1))
        t == Rat(TestSize[1], TestSize[2])
    IN  <<NpDiv(s2, Int2F(J)),
          FMul(s2, FAdd(NpDiv(Int2F(1), Int2F(J)), NpDiv(t, FSub(Int2F(1), t))))>>

\* the results of the object's last run of n_iterations iterations
LastRun == SubSeq(Results, Len(Results) - n_iterations + 1, Len(Results))

\* C12: after save_results() of a RepeatedHoldOut whose run had J >= 2
\* iterations, the stored error variance and accuracy variance are
\* <<s2 / J, s2 * (1/J + t/(1 - t))>> over the J mismatch fractions, resp. the
\* J balanced accuracies, of the run's iterations.
C12_VarianceFormula ==
    (kind = "RepeatedHoldOut" /\ outcome.op = "save_results" /\ outcome.status = "returned"
        /\ n_iterations >= 2) =>
        /\ variance.error =
              Some(ClaimedVariance([k \in 1 .. n_iterations |->
                                       Rat(Cardinality({j \in 1 .. Len(LastRun[k].y) :
                                                           LastRun[k].y[j] # LastRun[k].y_hat[j]}),
                                           Len(LastRun[k].y))],
                                   n_iterations))
        /\ variance.accuracy =
              Some(ClaimedVariance([k \in 1 .. n_iterations |-> LastRun[k].evaluation],
                                   n_iterations))

\* the same, for an object that holds the results of one run only
C12_FirstRun == Len(Results) = n_iterations => C12_VarianceFormula

\* C13: with at least two workers a submission does not wait for the units
\* submitted before it: while a (fold, C) unit is in flight and another is
\* left, evaluate() can submit the next one, and while an outer unit is in
\* flight and another split is left, validate() can submit the next one.
C13_ParallelDispatch ==
    /\ (epc = "inner" /\ inflight # None /\ alg_n_threads >= 2
            /\ ~(fi = Len(inner_cv) - 1 /\ ci = Len(c_range) - 1)) => ENABLED InnerSubmit
    /\ (pc = "get" /\ epc \in {"start", "inner", "select", "refit"} /\ n_threads >= 2
            /\ i + 1 < n_folds /\ i + 1 < Len(cv[1])) => ENABLED OuterSubmit

C14_PoolLifetime ==
    /\ pc = "idle" => async_pool \in {"none", "joined"}
    /\ epc \in {"none", "failed", "done"} => inner_pool \in {"none", "joined"}

\* the -1 that best_c and best_acc start from is among the fold winners
SentinelWinner ==
    \E f \in 1 .. Len(winners) : winners[f][1] = Sentinel \/ winners[f][2] = Sentinel

\* C15: an inner fold without candidate scores makes the search fail: the
\* evaluation never gets past the selection with an empty fold, so no
\* sentinel is among the winners and the selected C is a positive number when
\* the outer refit starts or has run.
C15_EmptySearchFatal ==
    epc \in {"refit", "done"} =>
        /\ \A f \in 1 .. Len(grid) : Len(grid[f]) > 0
        /\ ~SentinelWinner
        /\ best_parameter # None
        /\ FGreater(best_parameter[1].c, Int2F(0))
        /\ best_parameter[1].balanced_accuracy # Sentinel

\* a pair of 0-based positions into the sample set, train and test disjoint
ValidPair(pair) ==
    /\ \A k \in 1 .. Len(pair[1]) : pair[1][k] \in Samples
    /\ \A k \in 1 .. Len(pair[2]) : pair[2][k] \in Samples
    /\ Range(pair[1]) \cap Range(pair[2]) = {}

\* C16: a validate() call given splits_indices with an index outside 0..N-1
\* or an overlapping pair fails before any outer unit is dispatched: no unit
\* is in flight and none has been evaluated in such a call.
C16_EagerValidation ==
    (/\ outcome.op = "validate"
     /\ outcome.splits = "supplied"
     /\ cv # None
     /\ \E k \in 1 .. Len(cv[1]) : ~ValidPair(cv[1][k])) =>
        /\ pc # "get"
        /\ Len(async_result) = 0

====
